---- MODULE Spec2Model ----
(***************************************************************************)
(* Fit-and-score engine of prob_lab: fit_scipy / ScipyDistribution.fit,    *)
(* try_many, fit_block_maxima, fit_gpd_threshold and the extreme-value      *)
(* branch of the experiment runner (exp/run.py main).                       *)
(*                                                                          *)
(* Numbers.  A real number r is held as the integer r * Den (fixed point    *)
(* with denominator Den).  Sample values are whole numbers v, so that the   *)
(* linear-interpolation quantile of a sample is exact in this arithmetic.   *)
(*                                                                          *)
(* SciPy.  The parameter estimator (<family>.fit) and the log-density       *)
(* (<family>.logpdf) are library code outside the repository.  One call of  *)
(* the pair is an "estimator outcome" o: it either raises, or yields a      *)
(* shape value, a location, a scale and the summed log-density.  The        *)
(* repository's code places no condition on o and pins no SciPy release,    *)
(* so o ranges over EstimatorOutcomes for every input, the empty array      *)
(* included.  Within one call of try_many the estimator is a function of    *)
(* the family (the sample is the same for every attempt): the function lib  *)
(* maps each family to its outcome on the sample.                           *)
(***************************************************************************)
EXTENDS Integers, Sequences, FiniteSets

VARIABLES x, call, ret, fed

vars == <<x, call, ret, fed>>

----------------------------------------------------------------------------
(* Bounds of the model.                                                     *)

MaxLen == 3

MaxVal == 2

MaxBlock == 2

MaxNames == 3

Den == 4

----------------------------------------------------------------------------
(* Floating-point values that are not finite numbers.                       *)

NegInf == -1000000

NaN == -2000000

(* np.log(n), in fixed point; np.log(0) is -inf.                            *)
LnTable == <<0, 693147, 1098612, 1386294, 1609438, 1791759, 1945910, 2079442>>

np_log(n) == IF n = 0 THEN NegInf ELSE (Den * LnTable[n]) \div 1000000

(* k * np.log(n) - 2 * loglik, with -inf absorbing.                         *)
Penalised(k, n, loglik) ==
    IF np_log(n) = NegInf THEN NegInf ELSE k * np_log(n) - 2 * loglik

----------------------------------------------------------------------------
(* Sequence helpers standing for numpy / Python built-ins.                  *)

RECURSIVE SeqMax(_)
SeqMax(s) ==
    IF Len(s) = 1 THEN s[1]
    ELSE LET m == SeqMax(Tail(s)) IN IF s[1] > m THEN s[1] ELSE m

(* Python slice s[lo:hi] for 0 <= lo <= hi: clipped to the length of s.     *)
Slice(s, lo, hi) ==
    SubSeq(s, lo + 1, IF hi > Len(s) THEN Len(s) ELSE hi)

RECURSIVE Insert(_, _)
Insert(v, s) ==
    IF s = <<>> THEN <<v>>
    ELSE IF v <= s[1] THEN <<v>> \o s
    ELSE <<s[1]>> \o Insert(v, Tail(s))

RECURSIVE np_sort(_)
np_sort(s) == IF s = <<>> THEN <<>> ELSE Insert(s[1], np_sort(Tail(s)))

(* np.quantile(x, q) with the default linear interpolation, q = t / Den.    *)
np_quantile(s, t) ==
    IF s = <<>> THEN NaN
    ELSE LET xs == np_sort(s)
             pos == t * (Len(s) - 1)
             lo == pos \div Den
             r == pos % Den
         IN  IF r = 0 THEN Den * xs[lo + 1]
             ELSE Den * xs[lo + 1] + r * (xs[lo + 2] - xs[lo + 1])

----------------------------------------------------------------------------
(* Values returned and raised.                                              *)

FitResult(name, params, loc, scale, aic, bic, loglik, n) ==
    [name |-> name, params |-> params, loc |-> loc, scale |-> scale,
     aic |-> aic, bic |-> bic, loglik |-> loglik, n |-> n]

Return(fr) == [ok |-> TRUE, fr |-> fr]

Raise(e) == [ok |-> FALSE, err |-> e]

----------------------------------------------------------------------------
(* SciPy: the catalog and the estimator outcomes.                           *)

ScipyStats ==
    {"expon", "norm", "weibull_min", "lognorm", "gamma", "gompertz",
     "genextreme", "genpareto"}

(* Number of shape parameters of a family.                                  *)
numargs(dist) == IF dist \in {"expon", "norm"} THEN 0 ELSE 1

Raised == [raises |-> TRUE, c |-> 0, loc |-> 0, scale |-> 0, loglik |-> 0]

Returned(scale, loglik) ==
    [raises |-> FALSE, c |-> Den, loc |-> Den, scale |-> scale,
     loglik |-> loglik]

(* The estimator raises, or returns a fit: a degenerate one (scale 0, as a  *)
(* closed-form estimate on a constant sample) or a proper one.              *)
EstimatorOutcomes ==
    {Raised, Returned(0, -(2 * Den + 1)), Returned(Den, -Den)}

(* np.sum(<family>.logpdf(data, ...)): the sum over no points is 0.         *)
SumLogpdf(data, o) == IF data = <<>> THEN 0 ELSE o.loglik

----------------------------------------------------------------------------
(* distributions/scipy_wrappers.py                                          *)

(* __init__: a new instance; getattr(stats, dist_name) raises for a name    *)
(* scipy.stats does not define.                                             *)
ScipyDistribution(dist_name) ==
    IF dist_name \in ScipyStats
    THEN [ok |-> TRUE, self |-> [name |-> dist_name, dist |-> dist_name]]
    ELSE Raise("AttributeError")

ScipyDistribution_fit(self, data, o) ==
    IF o.raises THEN Raise("EstimatorError")
    ELSE LET arg == [i \in 1..numargs(self.dist) |-> o.c]
             loc == o.loc
             scale == o.scale
             loglik == SumLogpdf(data, o)
             n == Len(data)
             k == Len(arg) + 2
             aic == 2 * k * Den - 2 * loglik
             bic == Penalised(k, n, loglik)
         IN  Return(FitResult(self.name, arg, loc, scale, aic, bic, loglik, n))

(* The params_, loc_ and scale_ stored on the instance (line 30) go with    *)
(* the instance, which is local to the call.                                *)
fit_scipy(dist_name, data, lib) ==
    LET model == ScipyDistribution(dist_name)
    IN  IF ~model.ok THEN model
        ELSE ScipyDistribution_fit(model.self, data, lib[model.self.dist])

----------------------------------------------------------------------------
(* fitting/mle.py                                                           *)

Put(results, name, value) ==
    [d \in DOMAIN results \cup {name} |->
         IF d = name THEN value ELSE results[d]]

(* The loop without its except clause: the first failure ends it.           *)
RECURSIVE TryLoopUncaught(_, _, _, _, _)
TryLoopUncaught(data, dist_names, lib, i, results) ==
    IF i > Len(dist_names) THEN results
    ELSE LET r == fit_scipy(dist_names[i], data, lib)
         IN  IF ~r.ok THEN results
             ELSE TryLoopUncaught(data, dist_names, lib, i + 1,
                                  Put(results, dist_names[i], r))

(* The loop with one ScipyDistribution, built for the first name and        *)
(* reused by every attempt.                                                 *)
RECURSIVE TryLoopShared(_, _, _, _, _)
TryLoopShared(data, dist_names, lib, i, results) ==
    IF i > Len(dist_names) THEN results
    ELSE TryLoopShared(data, dist_names, lib, i + 1,
                       Put(results, dist_names[i],
                           fit_scipy(dist_names[1], data, lib)))

RECURSIVE TryLoop(_, _, _, _, _)
TryLoop(data, dist_names, lib, i, results) ==
    IF i > Len(dist_names) THEN results
    ELSE TryLoop(data, dist_names, lib, i + 1,
                 Put(results, dist_names[i], fit_scipy(dist_names[i], data, lib)))

try_many(data, dist_names, lib) ==
    TryLoop(data, dist_names, lib, 1, [d \in {} |-> d])

----------------------------------------------------------------------------
(* distributions/extreme_value.py                                           *)

(* A sample value v as a fixed-point real.                                  *)
Fx(v) == v * Den

(* Truncating division in place of the ceiling.                             *)
CeilTruncated(len, block_size) == len \div block_size

(* int(np.ceil(len(x)/block_size)) for block_size > 0.                      *)
Ceil(len, block_size) == (len + block_size - 1) \div block_size

NoData == [reached |-> FALSE, data |-> <<>>]

fit_block_maxima(data, block_size, o) ==
    IF block_size = 0
    THEN [out |-> Raise("ZeroDivisionError"), est |-> NoData]
    ELSE
      LET blocks == Ceil(Len(data), block_size)
          block(i) == Slice(data, i * block_size, (i + 1) * block_size)
      IN  IF \E i \in 0..(blocks - 1) : block(i) = <<>>
          THEN [out |-> Raise("ValueError"), est |-> NoData]
          ELSE
            LET maxima == [j \in 1..blocks |-> SeqMax(block(j - 1))]
                est == [reached |-> TRUE, data |-> maxima]
                loglik == SumLogpdf(maxima, o)
                n == Len(maxima)
                k == 3
                aic == 2 * k * Den - 2 * loglik
                bic == Penalised(k, n, loglik)
            IN  IF o.raises
                THEN [out |-> Raise("EstimatorError"), est |-> est]
                ELSE [out |-> Return(FitResult("genextreme(block-maxima)",
                                  <<o.c>>, o.loc, o.scale, aic, bic, loglik, n)),
                      est |-> est]

(* v >= threshold in place of v > threshold.                                *)
GtOrEqual(v, threshold) == threshold # NaN /\ v >= threshold

(* v > threshold on floats: false when threshold is NaN.                    *)
Gt(v, threshold) == threshold # NaN /\ v > threshold

RECURSIVE Exceed(_, _)
Exceed(data, threshold) ==
    IF data = <<>> THEN <<>>
    ELSE (IF Gt(Fx(data[1]), threshold)
          THEN <<Fx(data[1]) - threshold>> ELSE <<>>)
         \o Exceed(Tail(data), threshold)

(* The fitter with the k = 2 + 1 of line 23 used in both criteria.          *)
fit_gpd_threshold_k3(data, threshold, o) ==
    LET exceed == Exceed(data, threshold)
        est == [reached |-> TRUE, data |-> exceed]
        loglik == SumLogpdf(exceed, o)
        n == Len(exceed)
        k == 2 + 1
        aic == 2 * k * Den - 2 * loglik
        bic == Penalised(k, n, loglik)
    IN  IF o.raises
        THEN [out |-> Raise("EstimatorError"), est |-> est]
        ELSE [out |-> Return(FitResult("genpareto(excess over threshold)",
                          <<o.c>>, 0, o.scale, aic, bic, loglik, n)),
              est |-> est]

fit_gpd_threshold(data, threshold, o) ==
    LET exceed == Exceed(data, threshold)
        est == [reached |-> TRUE, data |-> exceed]
        loglik == SumLogpdf(exceed, o)
        n == Len(exceed)
        k == 2 + 1
        aic == 2 * 2 * Den - 2 * loglik
        bic == Penalised(2, n, loglik)
    IN  IF o.raises
        THEN [out |-> Raise("EstimatorError"), est |-> est]
        ELSE [out |-> Return(FitResult("genpareto(excess over threshold)",
                          <<o.c>>, 0, o.scale, aic, bic, loglik, n)),
              est |-> est]

----------------------------------------------------------------------------
(* exp/run.py: main, up to the results dictionary (the plots and the        *)
(* summary that follow only read it).  cfg holds cfg.fit.mle, cfg.fit.dist, *)
(* cfg.extreme.enabled, .mode, .block_size and .threshold.                  *)

NoFed == [fn |-> "none", arg |-> 0, est |-> NoData]

(* 0 <= thr <= 1 in place of 0 < thr < 1.                                   *)
resolve_threshold_inclusive(data, thr) ==
    IF 0 <= thr /\ thr <= Den THEN np_quantile(data, thr) ELSE thr

(* Lines 44-48: thr = float(cfg.extreme.threshold), then the quantile or    *)
(* the literal value.                                                       *)
resolve_threshold(data, thr) ==
    IF 0 < thr /\ thr < Den THEN np_quantile(data, thr) ELSE thr

main(data, cfg, oM, oE) ==
    LET mle == IF cfg.mle
               THEN fit_scipy(cfg.dist, data, [d \in {cfg.dist} |-> oM])
               ELSE Raise("skipped")
        r1 == IF cfg.mle /\ mle.ok THEN [d \in {"mle"} |-> mle.fr]
              ELSE [d \in {} |-> d]
    IN  IF cfg.mle /\ ~mle.ok THEN [out |-> mle, fed |-> NoFed]
        ELSE IF ~cfg.enabled THEN [out |-> [ok |-> TRUE, results |-> r1], fed |-> NoFed]
        ELSE IF cfg.mode = "block_maxima"
        THEN LET ev == fit_block_maxima(data, cfg.block_size, oE)
                 f == [fn |-> "fit_block_maxima", arg |-> cfg.block_size,
                       est |-> ev.est]
             IN  IF ev.out.ok
                 THEN [out |-> [ok |-> TRUE,
                                results |-> Put(r1, "extreme", ev.out.fr)],
                       fed |-> f]
                 ELSE [out |-> ev.out, fed |-> f]
        ELSE IF cfg.mode = "peaks_over_threshold"
        THEN LET thr_val == resolve_threshold(data, cfg.threshold)
                 ev == fit_gpd_threshold(data, thr_val, oE)
                 f == [fn |-> "fit_gpd_threshold", arg |-> thr_val,
                       est |-> ev.est]
             IN  IF ev.out.ok
                 THEN [out |-> [ok |-> TRUE,
                                results |-> Put(r1, "extreme", ev.out.fr)],
                       fed |-> f]
                 ELSE [out |-> ev.out, fed |-> f]
        ELSE [out |-> [ok |-> TRUE, results |-> r1], fed |-> NoFed]

----------------------------------------------------------------------------
(* Names the application layer offers or defaults to.                       *)

StreamlitChoices ==
    {"expon", "weibull_min", "lognorm", "gamma", "gompertz", "genextreme", "gpd"}

default_distributions ==
    {"expon", "weibull_min", "lognorm", "gamma", "genextreme", "gpd"}

try_many_defaults == {"expon", "weibull_min", "lognorm", "gamma", "gompertz"}

OfferedNames == StreamlitChoices \cup default_distributions \cup try_many_defaults

----------------------------------------------------------------------------
(* Inputs.                                                                  *)

Samples == UNION {[1..n -> 0..MaxVal] : n \in 0..MaxLen}

Names == OfferedNames \cup {"norm", "genpareto", "bogus_dist"}

TrialNames == {"expon", "weibull_min", "bogus_dist"}

NameLists == UNION {[1..n -> TrialNames] : n \in 0..MaxNames}

BlockSizes == 0..MaxBlock

Thresholds == (-1)..(MaxVal * Den)

MainDists == {"weibull_min", "gpd"}

Configs ==
    LET fits == {[mle |-> FALSE, dist |-> "weibull_min"]}
                \cup {[mle |-> TRUE, dist |-> d] : d \in MainDists}
        evts == {[enabled |-> FALSE, mode |-> "block_maxima",
                  block_size |-> 1, threshold |-> 0]}
                \cup {[enabled |-> TRUE, mode |-> "block_maxima",
                       block_size |-> b, threshold |-> 0] : b \in BlockSizes}
                \cup {[enabled |-> TRUE, mode |-> "peaks_over_threshold",
                       block_size |-> 1, threshold |-> t] : t \in Thresholds}
    IN  {[mle |-> f.mle, dist |-> f.dist, enabled |-> e.enabled,
          mode |-> e.mode, block_size |-> e.block_size,
          threshold |-> e.threshold] : f \in fits, e \in evts}

----------------------------------------------------------------------------
(* The state: the sample x, the last call and its arguments, what it       *)
(* returned or raised, and what the last extreme-value fitter handed to     *)
(* the estimator.                                                           *)

Init ==
    /\ x \in Samples
    /\ call = [op |-> "none"]
    /\ ret = Raise("none")
    /\ fed = NoFed

(* Each entry point loads a sample and makes its call once: a call is      *)
(* taken while none has been made.                                          *)

CallFitScipy ==
    /\ call.op = "none"
    /\ \E name \in Names, o \in EstimatorOutcomes :
          /\ call' = [op |-> "fit_scipy", dist_name |-> name]
          /\ ret' = fit_scipy(name, x, [d \in {name} |-> o])
          /\ fed' = NoFed
          /\ UNCHANGED x

CallTryMany ==
    /\ call.op = "none"
    /\ \E names \in NameLists :
          \E lib \in [{names[i] : i \in DOMAIN names} \cap ScipyStats
                         -> EstimatorOutcomes] :
             /\ call' = [op |-> "try_many", dist_names |-> names, lib |-> lib]
             /\ ret' = [ok |-> TRUE, results |-> try_many(x, names, lib)]
             /\ fed' = NoFed
             /\ UNCHANGED x

CallFitBlockMaxima ==
    /\ call.op = "none"
    /\ \E block_size \in BlockSizes, o \in EstimatorOutcomes :
          LET r == fit_block_maxima(x, block_size, o)
          IN  /\ call' = [op |-> "fit_block_maxima", block_size |-> block_size]
              /\ ret' = r.out
              /\ fed' = [fn |-> "fit_block_maxima", arg |-> block_size,
                         est |-> r.est]
              /\ UNCHANGED x

CallFitGpdThreshold ==
    /\ call.op = "none"
    /\ \E threshold \in Thresholds, o \in EstimatorOutcomes :
          LET r == fit_gpd_threshold(x, threshold, o)
          IN  /\ call' = [op |-> "fit_gpd_threshold", threshold |-> threshold]
              /\ ret' = r.out
              /\ fed' = [fn |-> "fit_gpd_threshold", arg |-> threshold,
                         est |-> r.est]
              /\ UNCHANGED x

CallMain ==
    /\ call.op = "none"
    /\ \E cfg \in Configs, oM \in EstimatorOutcomes, oE \in EstimatorOutcomes :
          LET r == main(x, cfg, oM, oE)
          IN  /\ call' = [op |-> "main", cfg |-> cfg]
              /\ ret' = r.out
              /\ fed' = r.fed
              /\ UNCHANGED x

Next ==
    \/ CallFitScipy
    \/ CallTryMany
    \/ CallFitBlockMaxima
    \/ CallFitGpdThreshold
    \/ CallMain

Spec == Init /\ [][Next]_vars

----------------------------------------------------------------------------
(* Vocabulary of the properties.                                            *)

Requested == {call.dist_names[i] : i \in DOMAIN call.dist_names}

(* The sample values strictly above a threshold thr (a finite number).      *)
Above(thr) == {i \in DOMAIN x : Fx(x[i]) > thr}

(* r carries the criteria of k free parameters.                             *)
Scored(r, k) ==
    /\ r.aic = 2 * k * Den - 2 * r.loglik
    /\ r.bic = IF r.n = 0 THEN NegInf ELSE k * np_log(r.n) - 2 * r.loglik

(* The largest value of the block of positions lo+1 .. hi of the sample.    *)
BlockMax(lo, hi) ==
    CHOOSE m \in {x[i] : i \in (lo + 1)..hi} :
        \A i \in (lo + 1)..hi : x[i] <= m

Smaller(a, b) == IF a < b THEN a ELSE b

(* s with its i-th and (i+1)-th elements exchanged.                         *)
Swapped(s, i) ==
    [j \in DOMAIN s |-> IF j = i THEN s[i + 1] ELSE IF j = i + 1 THEN s[i] ELSE s[j]]

(* s without its i-th element.                                              *)
Without(s, i) == SubSeq(s, 1, i - 1) \o SubSeq(s, i + 1, Len(s))

----------------------------------------------------------------------------
(* C1: try_many returns a mapping whose key set is exactly the set of       *)
(* requested names, whatever mix of fits succeed and fail.                  *)
C1_KeysAreRequested ==
    call.op = "try_many" => DOMAIN ret.results = Requested

C1_Witness ==
    /\ call.op = "try_many"
    /\ Len(call.dist_names) = 3
    /\ \E a, b, c \in DOMAIN ret.results :
          /\ a # b
          /\ ret.results[a].ok
          /\ ~ret.results[b].ok /\ ret.results[b].err = "EstimatorError"
          /\ ~ret.results[c].ok /\ ret.results[c].err = "AttributeError"

(* C2: the entry of a name depends only on the sample and the name: an      *)
(* unresolvable name is a failure under its own key, every other name has   *)
(* exactly what the estimator yields for it on the sample, and exchanging   *)
(* two neighbouring names of the list (hence, by repetition, permuting it)  *)
(* or removing another name leaves every entry as it is.                    *)
C2_EntriesIndependent ==
    call.op = "try_many" =>
        /\ \A name \in Requested :
              LET e == ret.results[name]
              IN  IF name \notin ScipyStats
                  THEN ~e.ok /\ e.err = "AttributeError"
                  ELSE IF call.lib[name].raises THEN ~e.ok
                  ELSE /\ e.ok
                       /\ e.fr.name = name
                       /\ e.fr.scale = call.lib[name].scale
                       /\ x # <<>> => e.fr.loglik = call.lib[name].loglik
                       /\ e.fr.n = Len(x)
        /\ \A i \in 1..(Len(call.dist_names) - 1) :
              try_many(x, Swapped(call.dist_names, i), call.lib) = ret.results
        /\ \A i \in DOMAIN call.dist_names :
              LET rest == try_many(x, Without(call.dist_names, i), call.lib)
              IN  \A name \in DOMAIN rest : rest[name] = ret.results[name]

C2_Witness ==
    /\ call.op = "try_many"
    /\ call.dist_names = <<"bogus_dist", "expon", "weibull_min">>
    /\ ret.results["expon"].ok
    /\ ret.results["weibull_min"].ok
    /\ ret.results["expon"].fr.loglik # ret.results["weibull_min"].fr.loglik
    /\ ~ret.results["bogus_dist"].ok

(* C3: every FitResult returned satisfies aic = 2k - 2 loglik and           *)
(* bic = k ln(n) - 2 loglik with k = shape count + 2 for fit_scipy,         *)
(* k = 3 for fit_block_maxima and k = 2 for fit_gpd_threshold.              *)
C3_CriteriaPerPath ==
    /\ (call.op = "fit_scipy" /\ ret.ok) =>
           Scored(ret.fr, Len(ret.fr.params) + 2)
    /\ call.op = "try_many" =>
           \A name \in DOMAIN ret.results :
               ret.results[name].ok =>
                   Scored(ret.results[name].fr,
                          Len(ret.results[name].fr.params) + 2)
    /\ (call.op = "fit_block_maxima" /\ ret.ok) => Scored(ret.fr, 3)
    /\ (call.op = "fit_gpd_threshold" /\ ret.ok) => Scored(ret.fr, 2)
    /\ (call.op = "main" /\ ret.ok) =>
           /\ "mle" \in DOMAIN ret.results =>
                  Scored(ret.results["mle"],
                         Len(ret.results["mle"].params) + 2)
           /\ "extreme" \in DOMAIN ret.results =>
                  Scored(ret.results["extreme"],
                         IF call.cfg.mode = "block_maxima" THEN 3 ELSE 2)

C3_Witness ==
    /\ call.op = "fit_gpd_threshold"
    /\ ret.ok
    /\ ret.fr.n >= 2
    /\ ret.fr.bic # ret.fr.aic

(* C4: for a non-empty sample and a positive block size, fit_block_maxima   *)
(* fits on the maxima of the consecutive blocks, in block order, the last   *)
(* (possibly shorter) block included; n is ceil(len / blockSize); a block   *)
(* size of at least the sample length gives one block; and the fitter       *)
(* raises nothing of its own.                                               *)
C4_BlockMaxima ==
    (fed.fn = "fit_block_maxima" /\ x # <<>> /\ fed.arg > 0) =>
        LET bs == fed.arg
            maxima == fed.est.data
            nb == Len(maxima)
        IN  /\ fed.est.reached
            /\ (nb - 1) * bs < Len(x) /\ Len(x) <= nb * bs
            /\ \A j \in 1..nb :
                  maxima[j] = BlockMax((j - 1) * bs, Smaller(j * bs, Len(x)))
            /\ bs >= Len(x) => nb = 1
            /\ (call.op = "fit_block_maxima" /\ ret.ok) => ret.fr.n = nb
            /\ (call.op = "fit_block_maxima" /\ ~ret.ok) =>
                   ret.err = "EstimatorError"

C4_Witness ==
    /\ call.op = "fit_block_maxima"
    /\ Len(x) = 3
    /\ fed.arg = 2
    /\ x[3] > x[1] /\ x[1] > x[2]
    /\ ret.ok
    /\ ret.fr.n = 2

(* C5: when some value exceeds the threshold, fit_gpd_threshold fits on     *)
(* exactly the values strictly greater than it, each reduced by it, in      *)
(* their original order; n is their count and loc is 0.                     *)
C5_Exceedances ==
    (fed.fn = "fit_gpd_threshold" /\ fed.arg # NaN /\ Above(fed.arg) # {}) =>
        LET kept == SelectSeq([i \in DOMAIN x |-> i],
                              LAMBDA i : i \in Above(fed.arg))
            exceed == fed.est.data
        IN  /\ Len(exceed) = Len(kept)
            /\ \A j \in DOMAIN kept : exceed[j] = Fx(x[kept[j]]) - fed.arg
            /\ \A j \in DOMAIN exceed : exceed[j] >= 0
            /\ (call.op = "fit_gpd_threshold" /\ ret.ok) =>
                   /\ ret.fr.n = Cardinality(Above(fed.arg))
                   /\ ret.fr.loc = 0

C5_Witness ==
    /\ call.op = "fit_gpd_threshold"
    /\ ret.ok
    /\ \E i \in DOMAIN x : Fx(x[i]) = call.threshold
    /\ ret.fr.n = 2
    /\ fed.est.data[1] > fed.est.data[2]

C7_ScalePositive ==
    (call.op \in {"fit_scipy", "fit_block_maxima", "fit_gpd_threshold"}
         /\ ret.ok) => ret.fr.scale > 0

(* C8: fit_scipy on an empty sample fails; it returns no FitResult.         *)
C8_EmptySampleFails ==
    (call.op = "fit_scipy" /\ x = <<>>) => ~ret.ok

(* C9: in the peaks-over-threshold path of main, a configured threshold t   *)
(* with 0 < t < 1 is replaced by the t-quantile of the sample, any other t  *)
(* (0 and 1 included) is used as it is, and n of the result counts the      *)
(* values above the resolved threshold.                                     *)
C9_ThresholdPolicy ==
    (call.op = "main" /\ fed.fn = "fit_gpd_threshold") =>
        LET t == call.cfg.threshold
        IN  /\ (0 < t /\ t < Den) => fed.arg = np_quantile(x, t)
            /\ (t <= 0 \/ t >= Den) => fed.arg = t
            /\ ret.ok =>
                   ret.results["extreme"].n =
                       IF fed.arg = NaN THEN 0
                       ELSE Cardinality(Above(fed.arg))

C9_Witness ==
    /\ call.op = "main"
    /\ fed.fn = "fit_gpd_threshold"
    /\ 0 < call.cfg.threshold /\ call.cfg.threshold < Den
    /\ fed.arg # call.cfg.threshold
    /\ Len(x) = 3
    /\ ret.ok
    /\ ret.results["extreme"].n = 1

(* C10: fit_scipy never fails to resolve a name the application offers or   *)
(* defaults to.                                                             *)
C10_OfferedNamesResolve ==
    (call.op = "fit_scipy" /\ call.dist_name \in OfferedNames) =>
        ~(~ret.ok /\ ret.err = "AttributeError")

====
